---- MODULE Spec2Model ----
(***************************************************************************)
(* The VideoByte bidder adapter (modules/videobyteBidAdapter.js): the      *)
(* validator (isBidRequestValid / validateVideo), the request builder      *)
(* (buildRequests / buildRequestData) and the response interpreter         *)
(* (interpretResponse), as a state machine over the host's bid request     *)
(* objects, the server response and the results of the three operations.   *)
(*                                                                         *)
(* JavaScript values.  A property that may be missing is a sequence of     *)
(* length at most one: <<>> is undefined (the property is absent), <<v>>   *)
(* is the property holding v.  A JavaScript number that may be NaN is the  *)
(* record [nan, n].  An exception is an explicit outcome ("threw").        *)
(***************************************************************************)
EXTENDS Integers, Sequences, FiniteSets, TLC

Undefined == <<>>

Some(v) == <<v>>

IsDefined(o) == Len(o) > 0

\* JavaScript truthiness, per type of the value held
TruthyBool(o) == IsDefined(o) /\ o[1] = TRUE

TruthyNum(o) == IsDefined(o) /\ o[1] # 0

TruthyStr(o) == IsDefined(o) /\ o[1] # ""

TruthyObj(o) == IsDefined(o)

\* x || d on an optional number
OrNum(o, d) == IF TruthyNum(o) THEN o ELSE Some(d)

\* x || d on an optional string
OrStr(o, d) == IF TruthyStr(o) THEN o ELSE Some(d)

----------------------------------------------------------------------------
\* Program constants

BIDDER_CODE == "videobyte"

ENDPOINT_URL == "https://x.videobyte.com/ortb"

DEFAULT_BID_TTL == 30

DEFAULT_CURRENCY == "USD"

DEFAULT_NET_REVENUE == TRUE

VIDEO_ORTB_PARAMS ==
    << "mimes", "minduration", "maxduration", "placement", "protocols",
       "startdelay", "skip", "skipafter", "minbitrate", "maxbitrate",
       "delivery", "playbackmethod", "api", "linearity" >>

\* the e2etest overrides of buildRequestData and buildRequests
E2E_W == 640

E2E_H == 480

E2E_PUBLISHER == "e2etest"

\* the placement written when none is declared, and the in-stream placement
DEFAULT_PLACEMENT == 2

INSTREAM_PLACEMENT == 1

ParamNames == {VIDEO_ORTB_PARAMS[i] : i \in 1..Len(VIDEO_ORTB_PARAMS)}

----------------------------------------------------------------------------
\* Numbers, arrays and JSON

NaN == [nan |-> TRUE, n |-> 0]

Num(k) == [nan |-> FALSE, n |-> k]

\* An element of a playerSize array: a [w, h] array (isArray, with its
\* numbers) or a plain number (not an array, nums = <<that number>>).
SizePair(w, h) == [isArray |-> TRUE, nums |-> <<w, h>>]

SizeNum(k) == [isArray |-> FALSE, nums |-> <<k>>]

\* a[i] (zero-based) of a JavaScript array held as a sequence
At(a, i) == IF i + 1 <= Len(a) THEN Some(a[i + 1]) ELSE Undefined

\* e[i] for an element e of playerSize: indexing a number yields undefined
ItemAt(e, i) == IF e.isArray THEN At(e.nums, i) ELSE Undefined

\* parseInt(x, 10) of an optional integer-valued number: NaN for undefined
parseInt(o) == IF IsDefined(o) THEN Num(o[1]) ELSE NaN

\* JSON.stringify of a number: NaN is written as null
JsonNum(x) == IF x.nan THEN [null |-> TRUE, n |-> 0] ELSE [null |-> FALSE, n |-> x.n]

\* String(x) of an optional string, as '+' concatenation converts it
ToStr(o) == IF IsDefined(o) THEN o[1] ELSE "undefined"

----------------------------------------------------------------------------
\* The validator

\* bidRequest.params.video && bidRequest.params.video.e2etest
IsE2eTest(bidRequest) ==
    /\ TruthyObj(bidRequest.params.video)
    /\ TruthyBool(bidRequest.params.video[1].e2etest)

\* validateVideo without the test of line 205: any declared context passes
validateVideo_AnyContext(bidRequest) ==
    IF IsE2eTest(bidRequest) THEN TRUE
    ELSE LET mediaTypesVideo == bidRequest.mediaTypes.video IN
         IF ~IsDefined(mediaTypesVideo) THEN FALSE
         ELSE IF ~TruthyStr(bidRequest.params.publisherId) THEN FALSE
         ELSE IF ~TruthyStr(mediaTypesVideo[1].context) THEN FALSE
         ELSE IF \/ ~IsDefined(mediaTypesVideo[1].playerSize)
                 \/ ~mediaTypesVideo[1].playerSize[1].isArray THEN FALSE
         ELSE TRUE

validateVideo(bidRequest) ==
    IF IsE2eTest(bidRequest) THEN TRUE
    ELSE LET mediaTypesVideo == bidRequest.mediaTypes.video IN
         IF ~IsDefined(mediaTypesVideo) THEN FALSE
         ELSE IF ~TruthyStr(bidRequest.params.publisherId) THEN FALSE
         ELSE IF ~TruthyStr(mediaTypesVideo[1].context) THEN FALSE
         ELSE IF mediaTypesVideo[1].context[1] # "instream" THEN FALSE
         ELSE IF \/ ~IsDefined(mediaTypesVideo[1].playerSize)
                 \/ ~mediaTypesVideo[1].playerSize[1].isArray THEN FALSE
         ELSE TRUE

isBidRequestValid(bidRequest) == validateVideo(bidRequest)

----------------------------------------------------------------------------
\* The request builder

\* Lines 112-115: the e2etest override writes into the host's own
\* mediaTypes.video object; assigning to a property of an undefined
\* mediaTypes.video is a TypeError.
E2eOverride(bidRequest) ==
    IF ~IsE2eTest(bidRequest)
    THEN [threw |-> FALSE, bidRequest |-> bidRequest]
    ELSE IF ~IsDefined(bidRequest.mediaTypes.video)
    THEN [threw |-> TRUE, bidRequest |-> bidRequest]
    ELSE [threw |-> FALSE,
          bidRequest |->
            [bidRequest EXCEPT !.mediaTypes.video =
                Some([@[1] EXCEPT
                        !["playerSize"] =
                            Some([isArray |-> TRUE,
                                  items |-> << SizePair(E2E_W, E2E_H) >>]),
                        !["conext"] = Some("instream")])]]

\* Lines 117-120: w and h from playerSize[0][0] and playerSize[0][1].
\* Reading playerSize of an undefined mediaTypes.video, [0] of an undefined
\* playerSize, or [0] of an undefined playerSize[0] is a TypeError.
VideoDims(mediaTypes) ==
    IF ~IsDefined(mediaTypes.video)
    THEN [threw |-> TRUE, w |-> NaN, h |-> NaN]
    ELSE LET playerSize == mediaTypes.video[1].playerSize IN
         IF ~IsDefined(playerSize)
         THEN [threw |-> TRUE, w |-> NaN, h |-> NaN]
         ELSE LET first == IF playerSize[1].isArray
                           THEN At(playerSize[1].items, 0)
                           ELSE Undefined IN
              IF ~IsDefined(first)
              THEN [threw |-> TRUE, w |-> NaN, h |-> NaN]
              ELSE [threw |-> FALSE,
                    w |-> parseInt(ItemAt(first[1], 0)),
                    h |-> parseInt(ItemAt(first[1], 1))]

\* const video = {w, h}: no ORTB parameter is set yet
NewVideo(w, h) ==
    [k \in ParamNames \cup {"w", "h"} |->
        IF k = "w" THEN w ELSE IF k = "h" THEN h ELSE Undefined]

\* Lines 123-127: VIDEO_ORTB_PARAMS.forEach, from parameter i on
RECURSIVE CopyOrtbParams(_, _, _)
CopyOrtbParams(video, mediaTypesVideo, i) ==
    IF i > Len(VIDEO_ORTB_PARAMS) THEN video
    ELSE LET param == VIDEO_ORTB_PARAMS[i] IN
         CopyOrtbParams(IF IsDefined(mediaTypesVideo[param])
                        THEN [video EXCEPT ![param] = mediaTypesVideo[param]]
                        ELSE video,
                        mediaTypesVideo, i + 1)

\* the default of line 131 as its comment words it: video.placement || 1
DefaultPlacement_One(video) ==
    [video EXCEPT !["placement"] = OrNum(@, INSTREAM_PLACEMENT)]

\* Line 131: video.placement = video.placement || 2
DefaultPlacement(video) ==
    [video EXCEPT !["placement"] = OrNum(@, DEFAULT_PLACEMENT)]

\* Lines 134-137: the override for params.context === 'instream'
InstreamOverride(video, params) ==
    IF IsDefined(params.context) /\ params.context[1] = "instream"
    THEN [video EXCEPT !["startdelay"] = OrNum(@, 0),
                       !["placement"] = Some(INSTREAM_PLACEMENT)]
    ELSE video

\* Lines 129-137
PlacementInference(video, params) ==
    InstreamOverride(DefaultPlacement(video), params)

\* Lines 139-148: the floor source.  A getFloor capability is held as the
\* table of what the host's callable returns for each requested currency.
FloorData(bidRequest) ==
    LET bidFloorRequest == [currency |-> OrStr(bidRequest.params.cur, "USD")[1],
                            mediaType |-> "video",
                            size |-> "*"] IN
    IF IsDefined(bidRequest.getFloor)
    THEN bidRequest.getFloor[1][bidFloorRequest.currency]
    ELSE [floor |-> bidRequest.params.floor,
          currency |-> bidRequest.params.currency]

\* isSecure(): document.location.protocol === 'https:'
isSecure(loc) == loc.protocol = "https:"

\* Line 164: refererInfo ? refererInfo.referer || null : null
SiteRef(bidRequest) ==
    IF TruthyObj(bidRequest.refererInfo) /\ TruthyStr(bidRequest.refererInfo[1].referer)
    THEN [null |-> FALSE, s |-> bidRequest.refererInfo[1].referer[1]]
    ELSE [null |-> TRUE, s |-> ""]

\* Lines 150-166.  tree holds the optional subtrees (source, user, regs) as
\* a map from the path of each leaf to the value written there, which may
\* be undefined (<<>>); the objects on the way to a leaf exist with it.
NewOpenrtbRequest(bidRequest, video, floorData, loc) ==
    [id |-> bidRequest.bidId,
     imp |-> << [id |-> "1",
                 video |-> video,
                 secure |-> IF isSecure(loc) THEN 1 ELSE 0,
                 bidfloor |-> floorData.floor,
                 bidfloorcur |-> floorData.currency] >>,
     site |-> [domain |-> loc.hostname,
               page |-> loc.href,
               ref |-> SiteRef(bidRequest)],
     tree |-> << >>]

\* the paths written by lines 170, 175, 176 and 181
SchainPath == <<"source", "ext", "schain">>

ConsentPath == <<"user", "ext", "consent">>

GdprPath == <<"regs", "ext", "gdpr">>

UsPrivacyPath == <<"regs", "ext", "us_privacy">>

\* utils.deepSetValue(obj, path, value): sets the leaf to value (which may
\* be undefined), creating the objects on the way and keeping every other
\* leaf
deepSetValue(obj, path, value) ==
    [obj EXCEPT !.tree = (path :> value) @@ @]

\* Lines 168-171
AddSchain(openrtbRequest, bidRequest) ==
    IF TruthyObj(bidRequest.schain)
    THEN deepSetValue(openrtbRequest, SchainPath, bidRequest.schain)
    ELSE openrtbRequest

\* Lines 173-177
AddGdpr(openrtbRequest, bidRequest) ==
    IF TruthyObj(bidRequest.gdprConsent)
    THEN deepSetValue(
            deepSetValue(openrtbRequest, ConsentPath,
                         bidRequest.gdprConsent[1].consentString),
            GdprPath,
            Some(IF TruthyBool(bidRequest.gdprConsent[1].gdprApplies)
                 THEN 1 ELSE 0))
    ELSE openrtbRequest

\* lines 179-182 writing a fresh regs object instead of deep-setting the leaf
AddUsPrivacy_ReplacesRegs(openrtbRequest, bidRequest) ==
    IF TruthyStr(bidRequest.uspConsent)
    THEN [openrtbRequest EXCEPT !.tree =
            (UsPrivacyPath :> bidRequest.uspConsent) @@
            [p \in {q \in DOMAIN @ : q[1] # "regs"} |-> @[p]]]
    ELSE openrtbRequest

\* Lines 179-182
AddUsPrivacy(openrtbRequest, bidRequest) ==
    IF TruthyStr(bidRequest.uspConsent)
    THEN deepSetValue(openrtbRequest, UsPrivacyPath, bidRequest.uspConsent)
    ELSE openrtbRequest

\* Lines 168-183
AddExtensions(openrtbRequest, bidRequest) ==
    AddUsPrivacy(AddGdpr(AddSchain(openrtbRequest, bidRequest), bidRequest),
                 bidRequest)

NoRequest == [id |-> "", imp |-> << >>, site |-> << >>, tree |-> << >>]

\* buildRequestData(bidRequest): the outcome (threw or not), the bid request
\* as the call leaves it, and the OpenRTB request it returns
buildRequestData(bidRequest, loc) ==
    LET over == E2eOverride(bidRequest) IN
    IF over.threw
    THEN [threw |-> TRUE, bidRequest |-> over.bidRequest, request |-> NoRequest]
    ELSE LET br   == over.bidRequest
             dims == VideoDims(br.mediaTypes) IN
         IF dims.threw
         THEN [threw |-> TRUE, bidRequest |-> br, request |-> NoRequest]
         ELSE LET copied == CopyOrtbParams(NewVideo(dims.w, dims.h),
                                           br.mediaTypes.video[1], 1)
                  video  == PlacementInference(copied, br.params) IN
              [threw |-> FALSE,
               bidRequest |-> br,
               request |-> AddExtensions(
                              NewOpenrtbRequest(br, video, FloorData(br), loc),
                              br)]

\* JSON.stringify of the video object: NaN becomes null, and a property
\* holding undefined is left out (it stays <<>>)
StringifyVideo(video) ==
    [k \in DOMAIN video |->
        IF k \in {"w", "h"} THEN JsonNum(video[k]) ELSE video[k]]

\* JSON.stringify of the optional subtrees: a leaf holding undefined is
\* left out of the text
StringifyTree(tree) ==
    [p \in {q \in DOMAIN tree : IsDefined(tree[q])} |-> tree[p][1]]

\* the objects of the optional subtrees (source, source.ext, ...): they are
\* written even when the leaf below them was left out
ObjectsOf(tree) ==
    UNION {{SubSeq(p, 1, k) : k \in 1..(Len(p) - 1)} : p \in DOMAIN tree}

\* JSON.stringify(openrtbRequest), held as the object the text denotes:
\* tree maps the path of each leaf present in the text to its value, and
\* objects holds the paths of the objects present in it
Stringify(openrtbRequest) ==
    [id |-> openrtbRequest.id,
     imp |-> << [openrtbRequest.imp[1] EXCEPT !.video = StringifyVideo(@)] >>,
     site |-> openrtbRequest.site,
     tree |-> StringifyTree(openrtbRequest.tree),
     objects |-> ObjectsOf(openrtbRequest.tree)]

\* Lines 53-63: the descriptor of one bid request
BuildOne(bidRequest, loc) ==
    LET publisherId == IF IsE2eTest(bidRequest)
                       THEN Some(E2E_PUBLISHER)
                       ELSE bidRequest.params.publisherId
        built == buildRequestData(bidRequest, loc) IN
    [threw |-> built.threw,
     bidRequest |-> built.bidRequest,
     request |-> IF built.threw THEN << >>
                 ELSE << [method |-> "POST",
                          url |-> ENDPOINT_URL \o "/" \o ToStr(publisherId),
                          data |-> Stringify(built.request)] >>]

\* bidRequests.map(...), from request i on: an exception ends the map, and
\* the requests mapped before it keep what the calls wrote into them
RECURSIVE MapBuild(_, _, _, _)
MapBuild(reqs, loc, i, out) ==
    IF i > Len(reqs)
    THEN [status |-> "returned", bidRequests |-> reqs, requests |-> out]
    ELSE LET one == BuildOne(reqs[i], loc)
             reqs2 == [reqs EXCEPT ![i] = one.bidRequest] IN
         IF one.threw
         THEN [status |-> "threw", bidRequests |-> reqs2, requests |-> << >>]
         ELSE MapBuild(reqs2, loc, i + 1, out \o one.request)

\* buildRequests(bidRequests); bidRequests is <<>> when the host passes none
buildRequests(bidRequests, loc) ==
    IF ~IsDefined(bidRequests)
    THEN [status |-> "undefined", bidRequests |-> bidRequests, requests |-> << >>]
    ELSE LET m == MapBuild(bidRequests[1], loc, 1, << >>) IN
         [status |-> m.status,
          bidRequests |-> Some(m.bidRequests),
          requests |-> m.requests]

----------------------------------------------------------------------------
\* The response interpreter

\* lines 80-97 with vastXml set whenever adm is present, not only when it
\* is truthy: if (bid.adm !== undefined)
BidResponse_VastWhenDefined(response, bid) ==
    [requestId |-> response.id,
     cpm |-> bid.price,
     width |-> bid.w,
     height |-> bid.h,
     ad |-> bid.adm,
     ttl |-> DEFAULT_BID_TTL,
     creativeId |-> bid.crid,
     netRevenue |-> DEFAULT_NET_REVENUE,
     currency |-> DEFAULT_CURRENCY,
     mediaType |-> "video",
     meta |-> [adomain |-> bid.adomain],
     vastXml |-> bid.adm]

\* Lines 80-97: the bid built from the single bid of an accepted response
BidResponse(response, bid) ==
    [requestId |-> response.id,
     cpm |-> bid.price,
     width |-> bid.w,
     height |-> bid.h,
     ad |-> bid.adm,
     ttl |-> DEFAULT_BID_TTL,
     creativeId |-> bid.crid,
     netRevenue |-> DEFAULT_NET_REVENUE,
     currency |-> DEFAULT_CURRENCY,
     mediaType |-> "video",
     meta |-> [adomain |-> bid.adomain],
     vastXml |-> IF TruthyStr(bid.adm) THEN bid.adm ELSE Undefined]

\* line 78 taking the first seat of one or more
Accepted_FirstSeat(response) ==
    /\ TruthyObj(response)
    /\ TruthyObj(response[1].seatbid)
    /\ Len(response[1].seatbid[1]) >= 1
    /\ TruthyObj(response[1].seatbid[1][1].bid)
    /\ Len(response[1].seatbid[1][1].bid[1]) = 1

\* Line 78: one seat holding one bid
Accepted(response) ==
    /\ TruthyObj(response)
    /\ TruthyObj(response[1].seatbid)
    /\ Len(response[1].seatbid[1]) = 1
    /\ TruthyObj(response[1].seatbid[1][1].bid)
    /\ Len(response[1].seatbid[1][1].bid[1]) = 1

interpretResponse(serverResponse) ==
    LET response == IF TruthyObj(serverResponse)
                    THEN serverResponse[1].body
                    ELSE Undefined IN
    IF Accepted(response)
    THEN << BidResponse(response[1], response[1].seatbid[1][1].bid[1][1]) >>
    ELSE << >>

----------------------------------------------------------------------------
\* Bounds and the inputs drawn from them

\* most bid requests in one buildRequests call
MaxReqs == 2

\* most seats in a response, and most bids in a seat
MaxSeats == 2

MaxBids == 2

SeqsUpTo(S, n) == UNION {[1..k -> S] : k \in 0..n}

\* mediaTypes.video: context, playerSize and the ORTB parameters it declares
MkVideo(context, playerSize, placement, startdelay, mimes) ==
    [k \in ParamNames \cup {"context", "playerSize", "conext"} |->
        CASE k = "context"    -> context
          [] k = "playerSize" -> playerSize
          [] k = "placement"  -> placement
          [] k = "startdelay" -> startdelay
          [] k = "mimes"      -> mimes
          [] OTHER            -> Undefined]

\* a bid request: params (video, publisherId, context, cur), mediaTypes.video,
\* getFloor, schain, gdprConsent, uspConsent and refererInfo
MkRequest(pv, pid, pc, cur, mv, gf, sc, gd, us, ri) ==
    [bidId |-> "bid-request-1",
     params |-> [video |-> pv,
                 publisherId |-> pid,
                 context |-> pc,
                 cur |-> cur,
                 floor |-> Some(1),
                 currency |-> Some("USD")],
     mediaTypes |-> [video |-> mv],
     getFloor |-> gf,
     schain |-> sc,
     gdprConsent |-> gd,
     uspConsent |-> us,
     refererInfo |-> ri]

ParamsVideos ==
    {Undefined, Some([e2etest |-> Some(FALSE)]), Some([e2etest |-> Some(TRUE)])}

PublisherIds == {Undefined, Some(""), Some("pub1")}

Contexts == {Undefined, Some("instream"), Some("outstream")}

Array(items) == [isArray |-> TRUE, items |-> items]

\* a playerSize that is a number, not an array
NotAnArray == [isArray |-> FALSE, items |-> << >>]

PlayerSizes ==
    {Undefined,
     Some(NotAnArray),
     Some(Array(<< >>)),
     Some(Array(<< SizeNum(640), SizeNum(480) >>)),
     Some(Array(<< SizePair(300, 250) >>)),
     Some(Array(<< SizePair(1920, 1080), SizePair(640, 480) >>))}

Placements == {Undefined, Some(0), Some(3)}

StartDelays == {Undefined, Some(0), Some(5)}

Mimes == Some(<< "video/mp4" >>)

Videos ==
    {Undefined} \cup
    {Some(MkVideo(c, ps, pl, sd, Mimes)) :
        c \in Contexts, ps \in PlayerSizes, pl \in Placements, sd \in StartDelays}

\* every combination of the fields the validator and the video object read
CoreRequests ==
    {MkRequest(pv, pid, pc, Undefined, v, Undefined,
               Undefined, Undefined, Undefined, Undefined) :
        pv \in ParamsVideos, pid \in PublisherIds, pc \in Contexts, v \in Videos}

FloorTable ==
    [c \in {"USD", "EUR"} |->
        [floor |-> Some(IF c = "USD" THEN 2 ELSE 3), currency |-> Some(c)]]

Schains == {Undefined, Some([ver |-> "1.0", complete |-> 1])}

GdprConsents ==
    {Undefined} \cup
    {Some([consentString |-> cs, gdprApplies |-> ga]) :
        cs \in {Undefined, Some(""), Some("abc")},
        ga \in {Undefined, Some(FALSE), Some(TRUE)}}

UspConsents == {Undefined, Some(""), Some("1YNN")}

RefererInfos == {Undefined, Some([referer |-> Some("https://ref.example/")])}

InstreamVideo ==
    Some(MkVideo(Some("instream"), Some(Array(<< SizePair(300, 250) >>)),
                 Undefined, Undefined, Mimes))

\* every combination of the floor, referer and extension inputs
ExtRequests ==
    {MkRequest(pv, Some("pub1"), Undefined, cur, InstreamVideo, gf,
               sc, gd, us, ri) :
        pv \in {Undefined, Some([e2etest |-> Some(TRUE)])},
        cur \in {Undefined, Some("EUR")},
        gf \in {Undefined, Some(FloorTable)},
        sc \in Schains, gd \in GdprConsents, us \in UspConsents,
        ri \in RefererInfos}

BaseRequest ==
    MkRequest(Undefined, Some("pub1"), Undefined, Undefined, InstreamVideo,
              Undefined, Undefined, Undefined, Undefined, Undefined)

\* the requests that batches of several are made of
BatchRequests ==
    {BaseRequest,
     MkRequest(Some([e2etest |-> Some(TRUE)]), Some("pub1"), Undefined, Undefined,
               InstreamVideo, Undefined, Undefined, Undefined, Undefined, Undefined),
     MkRequest(Some([e2etest |-> Some(TRUE)]), Undefined, Undefined, Undefined,
               Undefined, Undefined, Undefined, Undefined, Undefined, Undefined),
     MkRequest(Undefined, Some("pub1"), Some("instream"), Undefined,
               Some(MkVideo(Some("instream"), Some(Array(<< >>)),
                            Undefined, Undefined, Mimes)),
               Undefined, Undefined, Undefined, Undefined, Undefined)}

Locations ==
    {[protocol |-> "https:", hostname |-> "pub.example",
      href |-> "https://pub.example/page"],
     [protocol |-> "http:", hostname |-> "pub.example",
      href |-> "http://pub.example/page"]}

HttpsLocation ==
    [protocol |-> "https:", hostname |-> "pub.example",
     href |-> "https://pub.example/page"]

Bids ==
    {[id |-> Some("bid-1"), price |-> Some(3), w |-> Some(640), h |-> Some(480),
      adm |-> Some("<VAST/>"), crid |-> Some("c1"),
      adomain |-> Some(<< "x.com" >>)],
     [id |-> Some("bid-2"), price |-> Some(1), w |-> Some(300), h |-> Some(250),
      adm |-> Undefined, crid |-> Some("c2"), adomain |-> Undefined],
     [id |-> Some("bid-3"), price |-> Some(2), w |-> Some(640), h |-> Some(480),
      adm |-> Some(""), crid |-> Some("c3"), adomain |-> Some(<< "x.com" >>)]}

Seats ==
    {[bid |-> Undefined]} \cup
    {[bid |-> Some(bs)] : bs \in SeqsUpTo(Bids, MaxBids)}

MkBody(seatbid) == [id |-> Some("auction-1"), cur |-> Some("EUR"), seatbid |-> seatbid]

ServerResponses ==
    {Undefined, Some([body |-> Undefined]), Some([body |-> Some(MkBody(Undefined))])}
    \cup {Some([body |-> Some(MkBody(Some(ss)))]) : ss \in SeqsUpTo(Seats, MaxSeats)}

DefaultResponse ==
    Some([body |-> Some(MkBody(Some(<< [bid |-> Some(<< CHOOSE b \in Bids : TruthyStr(b.adm) >>)] >>)))])

----------------------------------------------------------------------------
\* The state machine

VARIABLES
    bidRequests,      \* the host's bid request objects (<<>>: none passed)
    location,         \* window.location / document.location
    serverResponse,   \* the response the host hands to interpretResponse
    validity,         \* per bid request, what isBidRequestValid last returned
    reqBefore,        \* the bid requests as they were when buildRequests was last called
    serverRequests,   \* the outcome of the last buildRequests call
    bidResponses      \* the outcome of the last interpretResponse call

vars == << bidRequests, location, serverResponse, validity, reqBefore,
           serverRequests, bidResponses >>

NumRequests == IF IsDefined(bidRequests) THEN Len(bidRequests[1]) ELSE 0

Init ==
    /\ \/ /\ bidRequests \in {Some(<< r >>) : r \in CoreRequests}
          /\ location = HttpsLocation
          /\ serverResponse = DefaultResponse
       \/ /\ bidRequests \in {Some(<< r >>) : r \in ExtRequests}
          /\ location \in Locations
          /\ serverResponse = DefaultResponse
       \/ /\ bidRequests \in {Undefined} \cup
                             {Some(b) : b \in SeqsUpTo(BatchRequests, MaxReqs)}
          /\ location = HttpsLocation
          /\ serverResponse = DefaultResponse
       \/ /\ bidRequests = Some(<< BaseRequest >>)
          /\ location = HttpsLocation
          /\ serverResponse \in ServerResponses
    /\ validity = [i \in 1..NumRequests |-> "none"]
    /\ reqBefore = bidRequests
    /\ serverRequests = [status |-> "none", requests |-> << >>]
    /\ bidResponses = [status |-> "none", bids |-> << >>]

\* the host asks whether bid request i is valid
IsBidRequestValid(i) ==
    /\ validity' = [validity EXCEPT
                      ![i] = IF isBidRequestValid(bidRequests[1][i])
                             THEN "true" ELSE "false"]
    /\ UNCHANGED << bidRequests, location, serverResponse, reqBefore,
                    serverRequests, bidResponses >>

\* the host calls buildRequests with its bid requests
BuildRequests ==
    LET r == buildRequests(bidRequests, location) IN
    /\ reqBefore' = bidRequests
    /\ bidRequests' = r.bidRequests
    /\ serverRequests' = [status |-> r.status, requests |-> r.requests]
    /\ UNCHANGED << location, serverResponse, validity, bidResponses >>

\* the host hands the server's response to interpretResponse
InterpretResponse ==
    /\ bidResponses' = [status |-> "returned",
                        bids |-> interpretResponse(serverResponse)]
    /\ UNCHANGED << bidRequests, location, serverResponse, validity, reqBefore,
                    serverRequests >>

Next ==
    \/ \E i \in 1..NumRequests : IsBidRequestValid(i)
    \/ BuildRequests
    \/ InterpretResponse

Spec == Init /\ [][Next]_vars

----------------------------------------------------------------------------
\* Reading the results

\* buildRequests returned a list of descriptors
Built == serverRequests.status = "returned"

\* buildRequests has been called
BuildCalled == serverRequests.status # "none"

\* the bid request i as the host passed it to the last buildRequests call
Given(i) == reqBefore[1][i]

\* the wire body of descriptor i, and its imp[0].video
Wire(i) == serverRequests.requests[i].data

WireVideo(i) == Wire(i).imp[1].video

BuiltIndices == IF Built THEN 1..Len(serverRequests.requests) ELSE {}

CalledIndices ==
    IF BuildCalled /\ IsDefined(reqBefore) THEN 1..Len(reqBefore[1]) ELSE {}

----------------------------------------------------------------------------
\* C1: isBidRequestValid returns true exactly when params.video.e2etest is
\* truthy, or mediaTypes.video is present, params.publisherId is non-empty,
\* mediaTypes.video.context is 'instream' and mediaTypes.video.playerSize is
\* an array; in every other case it returns false.
C1_ShouldBeValid(r) ==
    \/ (IsDefined(r.params.video) /\ r.params.video[1].e2etest = Some(TRUE))
    \/ /\ IsDefined(r.mediaTypes.video)
       /\ IsDefined(r.params.publisherId) /\ r.params.publisherId[1] # ""
       /\ r.mediaTypes.video[1].context = Some("instream")
       /\ IsDefined(r.mediaTypes.video[1].playerSize)
       /\ r.mediaTypes.video[1].playerSize[1].isArray

C1_ValidExactlyWhen ==
    \A i \in 1..NumRequests :
        validity[i] # "none" =>
            validity[i] = (IF C1_ShouldBeValid(bidRequests[1][i])
                           THEN "true" ELSE "false")

\* an outstream request without e2etest, otherwise well-formed, was rejected
C1_Witness ==
    /\ NumRequests = 1
    /\ validity[1] = "false"
    /\ ~IsE2eTest(bidRequests[1][1])
    /\ IsDefined(bidRequests[1][1].mediaTypes.video)
    /\ bidRequests[1][1].params.publisherId = Some("pub1")
    /\ bidRequests[1][1].mediaTypes.video[1].context = Some("outstream")
    /\ bidRequests[1][1].mediaTypes.video[1].playerSize
           = Some(Array(<< SizePair(300, 250) >>))

\* C2: interpretResponse returns at most one bid, and exactly one if and
\* only if the body exists and holds exactly one seat with exactly one bid.
C2_OneSeatOneBid(sr) ==
    /\ IsDefined(sr)
    /\ IsDefined(sr[1].body)
    /\ IsDefined(sr[1].body[1].seatbid)
    /\ Len(sr[1].body[1].seatbid[1]) = 1
    /\ IsDefined(sr[1].body[1].seatbid[1][1].bid)
    /\ Len(sr[1].body[1].seatbid[1][1].bid[1]) = 1

C2_AtMostOneBid ==
    bidResponses.status = "returned" =>
        /\ Len(bidResponses.bids) <= 1
        /\ (Len(bidResponses.bids) = 1 <=> C2_OneSeatOneBid(serverResponse))

\* a response with two seats, each holding one bid, yielded no bid
C2_Witness ==
    /\ bidResponses.status = "returned"
    /\ bidResponses.bids = << >>
    /\ IsDefined(serverResponse) /\ IsDefined(serverResponse[1].body)
    /\ IsDefined(serverResponse[1].body[1].seatbid)
    /\ Len(serverResponse[1].body[1].seatbid[1]) = 2
    /\ \A k \in 1..2 :
          /\ IsDefined(serverResponse[1].body[1].seatbid[1][k].bid)
          /\ Len(serverResponse[1].body[1].seatbid[1][k].bid[1]) = 1

\* C3 (as claimed): the bid of an accepted response takes requestId from
\* the response's top-level id, cpm/width/height/ad/creativeId/meta.adomain
\* from the bid, has ttl 30, netRevenue true, currency 'USD', mediaType
\* 'video', and has vastXml (equal to adm) exactly when adm is present.
C3_BidMapping ==
    (bidResponses.status = "returned" /\ Len(bidResponses.bids) = 1) =>
        LET out  == bidResponses.bids[1]
            body == serverResponse[1].body[1]
            bid  == body.seatbid[1][1].bid[1][1] IN
        /\ out.requestId = body.id
        /\ out.cpm = bid.price
        /\ out.width = bid.w
        /\ out.height = bid.h
        /\ out.ad = bid.adm
        /\ out.creativeId = bid.crid
        /\ out.meta.adomain = bid.adomain
        /\ out.ttl = 30
        /\ out.netRevenue = TRUE
        /\ out.currency = "USD"
        /\ out.mediaType = "video"
        /\ (IsDefined(out.vastXml) <=> IsDefined(bid.adm))
        /\ (IsDefined(bid.adm) => out.vastXml = bid.adm)

\* C3 (amended): the same mapping, with vastXml present (and equal to adm)
\* exactly when adm is a non-empty string; an adm that is present but empty
\* is copied to ad and gives no vastXml.
C3_BidMappingNonEmptyAdm ==
    (bidResponses.status = "returned" /\ Len(bidResponses.bids) = 1) =>
        LET out  == bidResponses.bids[1]
            body == serverResponse[1].body[1]
            bid  == body.seatbid[1][1].bid[1][1] IN
        /\ out.requestId = body.id
        /\ out.cpm = bid.price
        /\ out.width = bid.w
        /\ out.height = bid.h
        /\ out.ad = bid.adm
        /\ out.creativeId = bid.crid
        /\ out.meta.adomain = bid.adomain
        /\ out.ttl = 30
        /\ out.netRevenue = TRUE
        /\ out.currency = "USD"
        /\ out.mediaType = "video"
        /\ (IsDefined(out.vastXml) <=> (IsDefined(bid.adm) /\ bid.adm[1] # ""))
        /\ (IsDefined(out.vastXml) => out.vastXml = bid.adm)

\* an accepted response declaring EUR whose bid has an empty adm was
\* interpreted: ad is the empty string and there is no vastXml
C3_Witness ==
    /\ bidResponses.status = "returned"
    /\ Len(bidResponses.bids) = 1
    /\ serverResponse[1].body[1].cur = Some("EUR")
    /\ serverResponse[1].body[1].seatbid[1][1].bid[1][1].adm = Some("")
    /\ bidResponses.bids[1].ad = Some("")
    /\ bidResponses.bids[1].vastXml = Undefined
    /\ bidResponses.bids[1].requestId = Some("auction-1")
    /\ bidResponses.bids[1].currency = "USD"

\* C4: for every bid request whose mediaTypes.video.context is 'instream'
\* and that declares no placement, the wire request has
\* imp[0].video.placement = 1, and startdelay = 0 when startdelay was unset.
C4_InstreamContextPlacement ==
    \A i \in BuiltIndices :
        LET mv == Given(i).mediaTypes.video[1] IN
        (mv.context = Some("instream") /\ ~IsDefined(mv.placement)) =>
            /\ WireVideo(i).placement = Some(1)
            /\ (~IsDefined(mv.startdelay) => WireVideo(i).startdelay = Some(0))

\* C5: for every bid request with params.video.e2etest truthy, buildRequests
\* returns a POST descriptor whose url ends in '/e2etest' and whose body has
\* imp[0].video.w = 640 and imp[0].video.h = 480.
C5_E2eTestDescriptor ==
    \A i \in CalledIndices :
        (/\ IsDefined(Given(i).params.video)
         /\ Given(i).params.video[1].e2etest = Some(TRUE)) =>
            /\ Built
            /\ serverRequests.requests[i].method = "POST"
            /\ serverRequests.requests[i].url
                   = "https://x.videobyte.com/ortb/e2etest"
            /\ WireVideo(i).w = [null |-> FALSE, n |-> 640]
            /\ WireVideo(i).h = [null |-> FALSE, n |-> 480]

\* C6 (as claimed): in the wire body each extension path is present exactly
\* when its input is present on the bid request: source.ext.schain for
\* schain, user.ext.consent and regs.ext.gdpr (1 when gdprApplies is truthy,
\* else 0) for gdprConsent, regs.ext.us_privacy for uspConsent; with
\* gdprConsent and uspConsent both present, regs.ext holds both gdpr and
\* us_privacy.
C6_ExtensionPaths ==
    \A i \in BuiltIndices :
        LET r == Given(i)
            t == Wire(i).tree IN
        /\ (SchainPath \in DOMAIN t <=> IsDefined(r.schain))
        /\ (ConsentPath \in DOMAIN t <=> IsDefined(r.gdprConsent))
        /\ (GdprPath \in DOMAIN t <=> IsDefined(r.gdprConsent))
        /\ (GdprPath \in DOMAIN t =>
               t[GdprPath] = (IF r.gdprConsent[1].gdprApplies = Some(TRUE)
                              THEN 1 ELSE 0))
        /\ (UsPrivacyPath \in DOMAIN t <=> IsDefined(r.uspConsent))
        /\ ((IsDefined(r.gdprConsent) /\ IsDefined(r.uspConsent)) =>
               {GdprPath, UsPrivacyPath} \subseteq DOMAIN t)

\* C6 (amended): source.ext.schain is present exactly when schain is present
\* (an object); regs.ext.gdpr exactly when gdprConsent is present (1 when
\* gdprApplies is truthy, else 0); user.ext.consent exactly when gdprConsent
\* is present and its consentString is defined, and with an undefined
\* consentString user.ext is there as an empty object; regs.ext.us_privacy
\* exactly when uspConsent is a non-empty string.  Every path present holds
\* its input's value, none holds null, and regs.ext holds both gdpr and
\* us_privacy when both are written.
C6_ExtensionPathsTruthy ==
    \A i \in BuiltIndices :
        LET r == Given(i)
            t == Wire(i).tree
            hasConsent == /\ IsDefined(r.gdprConsent)
                          /\ IsDefined(r.gdprConsent[1].consentString)
            hasUsp == IsDefined(r.uspConsent) /\ r.uspConsent[1] # "" IN
        /\ (SchainPath \in DOMAIN t <=> IsDefined(r.schain))
        /\ (IsDefined(r.schain) => t[SchainPath] = r.schain[1])
        /\ (ConsentPath \in DOMAIN t <=> hasConsent)
        /\ (hasConsent => t[ConsentPath] = r.gdprConsent[1].consentString[1])
        /\ (GdprPath \in DOMAIN t <=> IsDefined(r.gdprConsent))
        /\ (IsDefined(r.gdprConsent) =>
               t[GdprPath] = (IF r.gdprConsent[1].gdprApplies = Some(TRUE)
                              THEN 1 ELSE 0))
        /\ (UsPrivacyPath \in DOMAIN t <=> hasUsp)
        /\ (hasUsp => t[UsPrivacyPath] = r.uspConsent[1])
        /\ DOMAIN t \subseteq {SchainPath, ConsentPath, GdprPath, UsPrivacyPath}
        /\ (<<"source">> \in Wire(i).objects <=> IsDefined(r.schain))
        /\ (<<"user", "ext">> \in Wire(i).objects <=> IsDefined(r.gdprConsent))
        /\ (<<"regs", "ext">> \in Wire(i).objects <=>
               (IsDefined(r.gdprConsent) \/ hasUsp))

\* a request with a gdprConsent that has no consentString, an empty
\* uspConsent and no schain was built: regs.ext.gdpr is the only leaf,
\* user.ext is an empty object and there is no us_privacy
C6_Witness ==
    /\ Built
    /\ Len(serverRequests.requests) = 1
    /\ IsDefined(Given(1).gdprConsent)
    /\ Given(1).gdprConsent[1].consentString = Undefined
    /\ Given(1).gdprConsent[1].gdprApplies = Some(TRUE)
    /\ Given(1).uspConsent = Some("")
    /\ ~IsDefined(Given(1).schain)
    /\ DOMAIN Wire(1).tree = {GdprPath}
    /\ Wire(1).tree[GdprPath] = 1
    /\ <<"user", "ext">> \in Wire(1).objects

\* C7: none of the three operations ever raises an exception, for any input;
\* in particular buildRequests raises none on bid requests that
\* isBidRequestValid has accepted, the only ones the host passes to it.
C7_NeverThrows ==
    (\A i \in CalledIndices : isBidRequestValid(Given(i))) =>
        serverRequests.status # "threw"

\* C8: buildRequests leaves every field of every bid request as it was
\* before the call.
C8_RequestsReadOnly == BuildCalled => bidRequests = reqBefore

\* C9: placement is decided by params.context: 'instream' forces placement 1
\* (even over a declared placement) and startdelay keeps its declared value
\* or becomes 0; otherwise placement is the declared placement when truthy
\* and 2 otherwise, and startdelay is copied only if declared.
C9_PlacementByParamsContext ==
    \A i \in BuiltIndices :
        LET r  == Given(i)
            mv == r.mediaTypes.video[1]
            v  == WireVideo(i) IN
        IF r.params.context = Some("instream")
        THEN /\ v.placement = Some(1)
             /\ v.startdelay = (IF IsDefined(mv.startdelay)
                                THEN mv.startdelay ELSE Some(0))
        ELSE /\ v.placement = (IF IsDefined(mv.placement) /\ mv.placement[1] # 0
                               THEN mv.placement ELSE Some(2))
             /\ v.startdelay = mv.startdelay

\* params.context is 'instream', the video context is not, and a declared
\* placement of 3 was overridden by 1
C9_Witness ==
    /\ Built
    /\ Len(serverRequests.requests) = 1
    /\ Given(1).params.context = Some("instream")
    /\ Given(1).mediaTypes.video[1].context = Some("outstream")
    /\ Given(1).mediaTypes.video[1].placement = Some(3)
    /\ Given(1).mediaTypes.video[1].startdelay = Some(5)
    /\ WireVideo(1).placement = Some(1)
    /\ WireVideo(1).startdelay = Some(5)

\* C10: for every bid request that isBidRequestValid accepts, buildRequests
\* completes and the wire body's imp[0].video.w and .h are integers, equal
\* to the first pair of playerSize (640 and 480 in e2etest mode).
C10_ValidatorBuilderAgree ==
    \A i \in CalledIndices :
        LET r == Given(i) IN
        isBidRequestValid(r) =>
            /\ Built
            /\ ~WireVideo(i).w.null
            /\ ~WireVideo(i).h.null
            /\ IF IsE2eTest(r)
               THEN WireVideo(i).w.n = 640 /\ WireVideo(i).h.n = 480
               ELSE LET first == r.mediaTypes.video[1].playerSize[1].items[1] IN
                    /\ first.isArray
                    /\ WireVideo(i).w.n = first.nums[1]
                    /\ WireVideo(i).h.n = first.nums[2]

====
